---- MODULE Spec2Model ----
(***************************************************************************)
(* Word Chain Game server (src/server/index.ts): the chain builder         *)
(* generateWordChain, its lookup helper fetchDatamuse, the fallback table  *)
(* and the GET /api/chain handler, as a state machine; and the game client *)
(* (src/client/src/App.tsx), as a second state machine.                    *)
(*                                                                         *)
(* A word is a sequence of one-character strings, so that letter case,     *)
(* the alphabetic test and the length limits are computed, not assumed.    *)
(***************************************************************************)
EXTENDS Integers, Sequences, FiniteSets, TLC

(***************************************************************************)
(* Bounds of the model.                                                    *)
(***************************************************************************)
\* Number of request slots of GET /api/chain.
NumRequests == 2

Requests == 1..NumRequests

(***************************************************************************)
(* Characters and the string methods the server uses.                      *)
(***************************************************************************)
LowerLetters ==
  << "a","b","c","d","e","f","g","h","i","j","k","l","m",
     "n","o","p","q","r","s","t","u","v","w","x","y","z" >>

UpperLetters ==
  << "A","B","C","D","E","F","G","H","I","J","K","L","M",
     "N","O","P","Q","R","S","T","U","V","W","X","Y","Z" >>

LowerSet == {LowerLetters[i] : i \in 1..26}

UpperSet == {UpperLetters[i] : i \in 1..26}

IsLower(c) == c \in LowerSet

IsUpper(c) == c \in UpperSet

\* The letter pairs of String.prototype.toUpperCase and toLowerCase.
UpperOf == [c \in LowerSet |-> UpperLetters[CHOOSE i \in 1..26 : LowerLetters[i] = c]]

LowerOf == [c \in UpperSet |-> LowerLetters[CHOOSE i \in 1..26 : UpperLetters[i] = c]]

\* One character of String.prototype.toUpperCase.
UpperChar(c) == IF IsLower(c) THEN UpperOf[c] ELSE c

\* One character of String.prototype.toLowerCase.
LowerChar(c) == IF IsUpper(c) THEN LowerOf[c] ELSE c

toUpperCase(w) == [i \in 1..Len(w) |-> UpperChar(w[i])]

toLowerCase(w) == [i \in 1..Len(w) |-> LowerChar(w[i])]

Min(a, b) == IF a < b THEN a ELSE b

(***************************************************************************)
(* Program constants.                                                      *)
(***************************************************************************)
\* while (chain.length < 6 ...) and if (chain.length < 6)
ChainLength == 6

\* let maxAttempts = 20
MaxAttemptsInit == 20

\* w.length >= 3
MinWordLength == 3

\* w.length <= 12
MaxWordLength == 12

\* .slice(0, 15)
MaxCandidates == 15

\* The status res.json answers with when no status was set.
StatusOK == 200

seedWords ==
  << <<"B","i","r","d">>,
     <<"F","i","r","e">>,
     <<"S","n","o","w">>,
     <<"S","u","n">>,
     <<"W","a","t","e","r">>,
     <<"M","o","o","n">>,
     <<"S","t","a","r">>,
     <<"R","o","c","k">>,
     <<"T","i","m","e">>,
     <<"B","o","o","k">>,
     <<"L","i","g","h","t">>,
     <<"T","r","e","e">>,
     <<"G","l","a","s","s">>,
     <<"P","a","p","e","r">>,
     <<"I","c","e">>,
     <<"W","i","n","d">> >>

fallbackChains ==
  << << <<"B","i","r","d">>,
        <<"W","a","t","c","h","i","n","g">>,
        <<"P","a","r","t","y">>,
        <<"A","n","i","m","a","l">>,
        <<"S","h","e","l","t","e","r">>,
        <<"H","o","m","e">> >>,
     << <<"S","n","o","w">>,
        <<"B","a","l","l">>,
        <<"P","a","r","k">>,
        <<"B","e","n","c","h">>,
        <<"P","r","e","s","s">>,
        <<"R","e","l","e","a","s","e">> >>,
     << <<"S","u","n">>,
        <<"F","l","o","w","e","r">>,
        <<"P","o","t">>,
        <<"L","u","c","k">>,
        <<"D","r","a","g","o","n">>,
        <<"F","l","y">> >>,
     << <<"F","i","r","e">>,
        <<"T","r","u","c","k">>,
        <<"S","t","o","p">>,
        <<"L","i","g","h","t">>,
        <<"H","o","u","s","e">>,
        <<"K","e","e","p","e","r">> >>,
     << <<"T","i","m","e">>,
        <<"M","a","c","h","i","n","e">>,
        <<"G","u","n">>,
        <<"P","o","w","d","e","r">>,
        <<"R","o","o","m">>,
        <<"S","e","r","v","i","c","e">> >>,
     << <<"B","o","o","k">>,
        <<"M","a","r","k">>,
        <<"D","o","w","n">>,
        <<"T","o","w","n">>,
        <<"H","a","l","l">>,
        <<"P","a","s","s">> >>,
     << <<"W","a","t","e","r">>,
        <<"F","a","l","l">>,
        <<"O","u","t">>,
        <<"S","i","d","e">>,
        <<"W","a","l","k">>,
        <<"A","w","a","y">> >>,
     << <<"S","t","a","r">>,
        <<"F","i","s","h">>,
        <<"B","o","w","l">>,
        <<"G","a","m","e">>,
        <<"P","l","a","n">>,
        <<"A","h","e","a","d">> >>,
     << <<"R","o","c","k">>,
        <<"S","t","a","r">>,
        <<"L","i","g","h","t">>,
        <<"W","e","i","g","h","t">>,
        <<"L","o","s","s">>,
        <<"P","r","e","v","e","n","t","i","o","n">> >>,
     << <<"M","o","o","n">>,
        <<"L","i","g","h","t">>,
        <<"S","p","e","e","d">>,
        <<"D","i","a","l">>,
        <<"T","o","n","e">>,
        <<"D","e","a","f">> >> >>

(***************************************************************************)
(* The association service, as the server sees it.  A response body is     *)
(* JSON text holding an array, JSON text holding something else, or text   *)
(* that is no JSON.  An array item is null, an object without a `word`     *)
(* field, an object whose `word` is a number, or an object whose `word` is *)
(* a string.                                                               *)
(***************************************************************************)
Str(w) == [kind |-> "string", word |-> w]

NullItem == [kind |-> "null", word |-> <<>>]

NoWordItem == [kind |-> "noword", word |-> <<>>]

NumberItem == [kind |-> "number", word |-> <<>>]

\* The stubbed candidate graphs: each maps the queried word to a ranked array.
Graphs == {"path", "branch", "messy", "empty", "wide"}

IsSeedQuery(q) == \E i \in 1..Len(seedWords) : toLowerCase(seedWords[i]) = q

\* The tail shared by the graphs: song -> writer -> block -> party -> line.
TailBody(q) ==
  CASE q = <<"s","o","n","g">> -> << Str(<<"w","r","i","t","e","r">>) >>
    [] q = <<"w","r","i","t","e","r">>    -> << Str(<<"B","l","o","c","k">>) >>
    [] q = <<"b","l","o","c","k">>   -> << Str(<<"P","A","R","T","Y">>) >>
    [] q = <<"p","a","r","t","y">>  -> << Str(<<"l","i","n","e">>) >>
    [] OTHER           -> << >>

\* "path": one candidate per word, a single 6-node path from every seed.
PathBody(q) ==
  IF IsSeedQuery(q) THEN << Str(<<"s","o","n","g">>) >> ELSE TailBody(q)

\* "branch": the first usable candidate of a seed is a dead end; the second
\* one starts a 6-node path.
BranchBody(q) ==
  IF IsSeedQuery(q)
  THEN << Str(<<"a">>), Str(<<"d","e","a","d","-","e","n","d">>), Str(<<"k","e","e","p","e","r">>), Str(<<"s","o","n","g">>) >>
  ELSE TailBody(q)

\* "messy": case variants, words equal to a seed, cycles, malformed entries,
\* words at and beyond the length limits.
MessyBody(q) ==
  CASE IsSeedQuery(q) /\ q # <<"i","c","e">> ->
         << Str(<<"f","l","y">>), Str(<<"F","L","Y">>), Str(<<"b","i","r","d">>), Str(<<"I","C","E">>) >>
    [] q = <<"f","l","y">> ->
         << Str(<<"F","l","y">>), NoWordItem, Str(<<"i","c","e">>), NumberItem,
            Str(<<"t","h","u","n","d","e","r","s","t","o","r","m">>), Str(<<"t","h","u","n","d","e","r","s","t","o","r","m","s">>), Str(<<>>),
            Str(<<"t","w","o"," ","w","o","r","d","s">>) >>
    [] q = <<"i","c","e">> ->
         << NullItem, Str(<<"s","o","n","g">>) >>
    [] q = <<"t","h","u","n","d","e","r","s","t","o","r","m">> ->
         << Str(<<"F","L","Y">>), Str(<<"s","o","n","g">>), Str(<<"T","h","u","n","d","e","r","s","t","o","r","m">>) >>
    [] OTHER -> TailBody(q)

\* "empty": the service knows no word that follows any word.
EmptyBody(q) == << >>

\* "wide": a seed is followed by the word "bird" and 15 more valid words, one
\* more than a lookup keeps; nothing follows those.
WideWord(k) == <<"w", "a", LowerLetters[k]>>

WideBody(q) ==
  IF IsSeedQuery(q)
  THEN << Str(<<"b","i","r","d">>) >> \o [k \in 1..MaxCandidates |-> Str(WideWord(k))]
  ELSE << >>

\* The array the stub `g` ranks for the query word `q`.
Body(g, q) ==
  CASE g = "path"   -> PathBody(q)
    [] g = "branch" -> BranchBody(q)
    [] g = "empty"  -> EmptyBody(q)
    [] g = "wide"   -> WideBody(q)
    [] OTHER        -> MessyBody(q)

(***************************************************************************)
(* fetchDatamuse (lines 12-32): the pure part.                             *)
(***************************************************************************)
\* The settled fetch as fetchDatamuse sees it.  rejected: the fetch promise
\* rejected (transport error, timeout error).  Otherwise status and body.
Response(rejected, status, kind, items) ==
  [rejected |-> rejected, status |-> status, kind |-> kind, items |-> items]

NoResponse == Response(FALSE, 0, "none", <<>>)

RejectedResponse == Response(TRUE, 0, "none", <<>>)

\* /^[a-z]+$/i.test(w), for a string w
IsAlphabetic(w) ==
  /\ Len(w) > 0
  /\ \A i \in 1..Len(w) : IsLower(w[i]) \/ IsUpper(w[i])

\* .filter((w) => w && /^[a-z]+$/i.test(w)), on the value of item.word:
\* undefined and "" are falsy; a number is tested as its decimal text.
KeepAlphabetic(item) ==
  /\ item.kind = "string"
  /\ item.word # <<>>
  /\ IsAlphabetic(item.word)

\* .filter((w) => w.length >= 3 && w.length <= 12)
KeepLength(item) ==
  /\ Len(item.word) >= MinWordLength
  /\ Len(item.word) <= MaxWordLength

\* Mutant: the candidate is kept as the service spelled it.
Capitalize_AsIs(w) == w

\* (w) => w.charAt(0).toUpperCase() + w.slice(1).toLowerCase()
Capitalize(w) ==
  IF w = <<>> THEN <<>> ELSE toUpperCase(<<w[1]>>) \o toLowerCase(Tail(w))

\* .slice(0, 15)
SliceCandidates(s) == SubSeq(s, 1, Min(Len(s), MaxCandidates))

\* data.map(item => item.word) raises a TypeError when an item is null.
MapThrows(data) == \E i \in 1..Len(data) : data[i].kind = "null"

\* Lines 22-27 on an array without a null item.
extractWords(data) ==
  LET alpha == SelectSeq(data, KeepAlphabetic)
      sized == SelectSeq(alpha, KeepLength)
      caps  == [i \in 1..Len(sized) |-> Capitalize(sized[i].word)]
  IN  SliceCandidates(caps)

Returned(v) == [threw |-> FALSE, value |-> v]

Thrown == [threw |-> TRUE, value |-> <<>>]

\* The try block (lines 14-27): await fetch, await response.json(), the
\* map/filter pipeline.  The status of the response is never read.
fetchDatamuseTry(resp) ==
  IF resp.rejected THEN Thrown
  ELSE IF resp.kind = "text" THEN Thrown
  ELSE IF resp.kind = "object" THEN Thrown
  ELSE IF MapThrows(resp.items) THEN Thrown
  ELSE Returned(extractWords(resp.items))

\* Mutant: no catch, the error leaves fetchDatamuse.
fetchDatamuseCatch_Rethrow(t) == t

\* catch (error) { return []; } (lines 28-31)
fetchDatamuseCatch(t) == IF t.threw THEN Returned(<<>>) ELSE t

fetchDatamuse(resp) == fetchDatamuseCatch(fetchDatamuseTry(resp))

(***************************************************************************)
(* generateWordChain (lines 35-80): the pure parts.                        *)
(***************************************************************************)
\* How finely Math.random() is drawn: the values u / RandomResolution.
RandomResolution == 16

RandomValues == 0..(RandomResolution - 1)

\* Math.floor(Math.random() * n), Math.random() = u / RandomResolution
RandomIndex(u, n) == (u * n) \div RandomResolution

\* chain.includes(w)
Includes(ch, w) == \E i \in 1..Len(ch) : ch[i] = w

\* Mutant: used candidates are not filtered out.
unusedCandidates_All(ch, cands) == cands

\* Mutant: the filter runs over the chain instead of the candidates.
unusedCandidates_Swapped(ch, cands) ==
  LET unlisted(w) == ~Includes(cands, w) IN SelectSeq(ch, unlisted)

\* candidates.filter(w => !chain.includes(w))
unusedCandidates(ch, cands) ==
  LET unused(w) == ~Includes(ch, w) IN SelectSeq(cands, unused)

\* Mutant: the lookup is made for the word before the last one.
currentWord_Previous(ch) == IF Len(ch) > 1 THEN ch[Len(ch) - 1] ELSE ch[1]

\* Mutant: the lookup is always made for the seed.
currentWord_Seed(ch) == ch[1]

\* chain[chain.length - 1]
currentWord(ch) == ch[Len(ch)]

\* Mutant: the loop runs until the chain holds one word more.
LoopCond_OneMore(ch, att) == Len(ch) < ChainLength + 1 /\ att > 0

\* while (chain.length < 6 && maxAttempts > 0)
LoopCond(ch, att) == Len(ch) < ChainLength /\ att > 0

\* Mutant: a short chain is returned as it is.
TooShort_Never(ch) == FALSE

\* if (chain.length < 6)
TooShort(ch) == Len(ch) < ChainLength

\* Mutant: the draw is scaled by length - 1, so the last entry is never drawn.
FallbackPick_SkipLast(u) ==
  fallbackChains[RandomIndex(u, Len(fallbackChains) - 1) + 1]

\* Mutant: the index is rounded up, so it can pass the end of the table.
FallbackPick_RoundedUp(u) ==
  LET i == RandomIndex(u, Len(fallbackChains)) + 2
  IN  IF i \in 1..Len(fallbackChains) THEN fallbackChains[i] ELSE <<>>

\* fallbackChains[Math.floor(Math.random() * fallbackChains.length)];
\* an index past the end reads undefined, which has no words.
FallbackPick(u) ==
  LET i == RandomIndex(u, Len(fallbackChains)) + 1
  IN  IF i \in 1..Len(fallbackChains) THEN fallbackChains[i] ELSE <<>>

\* Mutant: the first word is drawn from the words of a fallback chain.
SeedPick_FromFallback(u) ==
  fallbackChains[1][RandomIndex(u, Len(fallbackChains[1])) + 1]

\* seedWords[Math.floor(Math.random() * seedWords.length)]
SeedPick(u) == seedWords[RandomIndex(u, Len(seedWords)) + 1]

(***************************************************************************)
(* State.                                                                  *)
(***************************************************************************)
VARIABLES
  graph,        \* the candidate graph the association service answers from
  pc,           \* per request: idle, awaitFetch, awaitJson, stalled, responded
  chain,        \* per request: the local `chain` of generateWordChain
  maxAttempts,  \* per request: the local `maxAttempts`
  query,        \* per request: the word of the last fetch URL (lower-cased)
  response,     \* per request: the fetch response whose body is being read
  lastFetch,    \* per request: how the last lookup settled
  candidates,   \* per request: what the last fetchDatamuse call returned
  nLookups,     \* per request: fetches issued by the current build
  stubbed,      \* per request: every lookup so far answered 200 with the graph's array
  firstPicks,   \* per request: every candidate pick so far drew index 0
  buildOutcome, \* per request: none, returned, threw (generateWordChain)
  source,       \* per request: none, generated, fallback
  resStatus,    \* per request: the status of the HTTP answer
  resBody       \* per request: the JSON body of the HTTP answer

\* The client: the fields of gameState and the other state of the App
\* component (src/client/src/App.tsx, lines 251-280).
VARIABLES
  wordChain,        \* gameState.wordChain
  currentWordIndex, \* gameState.currentWordIndex (counted from 0, as in the code)
  revealedLetters,  \* gameState.revealedLetters
  completedWords,   \* gameState.completedWords
  failedWords,      \* gameState.failedWords
  isGameComplete,   \* gameState.isGameComplete
  startTime,        \* gameState.startTime, ms
  endTime,          \* gameState.endTime, ms or Null
  guessInput,       \* gameState.guessInput
  shouldJiggle,     \* gameState.shouldJiggle
  elapsedTime,      \* the elapsedTime state, kept here in ms (seconds * 1000)
  intervalActive,   \* the interval of the timer effect is running
  mountFetch,       \* the fetch of the mount effect: pending, resolved, rejected
  replayFetches,    \* fetches of handlePlayAgain in flight
  jiggleTimers,     \* setTimeout callbacks of wrong guesses still to run
  now,              \* Date.now(), ms
  guesses           \* non-empty guesses submitted since the chain was loaded

serverVars ==
  << graph, pc, chain, maxAttempts, query, response, lastFetch, candidates,
     nLookups, stubbed, firstPicks, buildOutcome, source, resStatus, resBody >>

clientVars ==
  << wordChain, currentWordIndex, revealedLetters, completedWords, failedWords,
     isGameComplete, startTime, endTime, guessInput, shouldJiggle, elapsedTime,
     intervalActive, mountFetch, replayFetches, jiggleTimers, now, guesses >>

vars == << serverVars, clientVars >>

\* endTime: number | null
Null == -1

\* The clock moves in steps of ClockStep ms, MaxClockSteps times at most.
ClockStep == 600

MaxClockSteps == 2

\* Play Again fetches in flight at once, and jiggle timeouts pending at once.
MaxReplayFetches == 2

MaxJiggleTimers == 2

\* useState (lines 265-278), useRef (279) and the mount effect's fetch (284).
ClientInit ==
  /\ wordChain = <<>>
  /\ currentWordIndex = 0
  /\ revealedLetters = 1
  /\ completedWords = <<>>
  /\ failedWords = <<>>
  /\ isGameComplete = FALSE
  /\ startTime = 0
  /\ endTime = Null
  /\ guessInput = <<>>
  /\ shouldJiggle = FALSE
  /\ elapsedTime = 0
  /\ intervalActive = FALSE
  /\ mountFetch = "pending"
  /\ replayFetches = 0
  /\ jiggleTimers = 0
  /\ now = ClockStep
  /\ guesses = 0

\* What the association service may answer with.
Statuses == {200, 500}

BodyKinds == {"array", "object", "text"}

Init ==
  /\ graph \in Graphs
  /\ pc = [r \in Requests |-> "idle"]
  /\ chain = [r \in Requests |-> <<>>]
  /\ maxAttempts = [r \in Requests |-> 0]
  /\ query = [r \in Requests |-> <<>>]
  /\ response = [r \in Requests |-> NoResponse]
  /\ lastFetch = [r \in Requests |-> NoResponse]
  /\ candidates = [r \in Requests |-> <<>>]
  /\ nLookups = [r \in Requests |-> 0]
  /\ stubbed = [r \in Requests |-> TRUE]
  /\ firstPicks = [r \in Requests |-> TRUE]
  /\ buildOutcome = [r \in Requests |-> "none"]
  /\ source = [r \in Requests |-> "none"]
  /\ resStatus = [r \in Requests |-> 0]
  /\ resBody = [r \in Requests |-> <<>>]
  /\ ClientInit

(***************************************************************************)
(* The handler of GET /api/chain (lines 168-178) around generateWordChain. *)
(***************************************************************************)
\* res.json(body): the answer leaves with status 200.
Respond(r, outcome, src, body) ==
  /\ pc' = [pc EXCEPT ![r] = "responded"]
  /\ buildOutcome' = [buildOutcome EXCEPT ![r] = outcome]
  /\ source' = [source EXCEPT ![r] = src]
  /\ resStatus' = [resStatus EXCEPT ![r] = StatusOK]
  /\ resBody' = [resBody EXCEPT ![r] = body]

\* A request that has not been answered.
NoAnswer(r) ==
  /\ buildOutcome' = [buildOutcome EXCEPT ![r] = "none"]
  /\ source' = [source EXCEPT ![r] = "none"]
  /\ resStatus' = [resStatus EXCEPT ![r] = 0]
  /\ resBody' = [resBody EXCEPT ![r] = <<>>]

\* Lines 72-79, then line 171: the completion policy and the answer.
Complete(r, ch, att, n) ==
  /\ chain' = [chain EXCEPT ![r] = ch]
  /\ maxAttempts' = [maxAttempts EXCEPT ![r] = att]
  /\ nLookups' = [nLookups EXCEPT ![r] = n]
  /\ UNCHANGED query
  /\ IF TooShort(ch)
     THEN \E u \in RandomValues : Respond(r, "returned", "fallback", FallbackPick(u))
     ELSE Respond(r, "returned", "generated", ch)

\* generateWordChain rejects; the handler's catch (lines 172-177) answers
\* with a fallback chain.
Rejects(r) ==
  /\ UNCHANGED <<chain, maxAttempts, query, nLookups>>
  /\ \E u \in RandomValues : Respond(r, "threw", "fallback", FallbackPick(u))

\* Mutant: `chain` is one array shared by every build in progress instead
\* of a local of each call.
LoopHead_SharedChain(r, ch, att, n) ==
  IF LoopCond(ch, att)
  THEN /\ chain' = [q \in Requests |->
                     IF q = r \/ pc[q] \in {"awaitFetch", "awaitJson"}
                     THEN ch ELSE chain[q]]
       /\ maxAttempts' = [maxAttempts EXCEPT ![r] = att - 1]
       /\ query' = [query EXCEPT ![r] = toLowerCase(currentWord(ch))]
       /\ nLookups' = [nLookups EXCEPT ![r] = n + 1]
       /\ pc' = [pc EXCEPT ![r] = "awaitFetch"]
       /\ NoAnswer(r)
  ELSE Complete(r, ch, att, n)

\* Mutant: the iteration does not count down the attempts.
LoopHead_NoCountDown(r, ch, att, n) ==
  IF LoopCond(ch, att)
  THEN /\ chain' = [chain EXCEPT ![r] = ch]
       /\ maxAttempts' = [maxAttempts EXCEPT ![r] = att]
       /\ query' = [query EXCEPT ![r] = toLowerCase(currentWord(ch))]
       /\ nLookups' = [nLookups EXCEPT ![r] = n + 1]
       /\ pc' = [pc EXCEPT ![r] = "awaitFetch"]
       /\ NoAnswer(r)
  ELSE Complete(r, ch, att, n)

\* The while condition (line 50); when it holds, lines 51-54 up to the
\* suspension at `await fetch(...)`.
LoopHead(r, ch, att, n) ==
  IF LoopCond(ch, att)
  THEN /\ chain' = [chain EXCEPT ![r] = ch]
       /\ maxAttempts' = [maxAttempts EXCEPT ![r] = att - 1]
       /\ query' = [query EXCEPT ![r] = toLowerCase(currentWord(ch))]
       /\ nLookups' = [nLookups EXCEPT ![r] = n + 1]
       /\ pc' = [pc EXCEPT ![r] = "awaitFetch"]
       /\ NoAnswer(r)
  ELSE Complete(r, ch, att, n)

\* Mutant: a dead end goes round the loop again.
Break_Retry(r, ch, att, n) == LoopHead(r, ch, att, n)

\* Mutant: a dead end starts the chain again from another seed.
Break_Reseed(r, ch, att, n) ==
  \E u \in RandomValues : LoopHead(r, <<SeedPick(u)>>, att, n)

\* `break` (lines 59 and 68): leave the loop for the completion policy.
Break(r, ch, att, n) == Complete(r, ch, att, n)

\* Lines 54-70 once the lookup has settled on `resp`.  (Each local value is
\* bound as the one element of a set, which evaluates it once.)
AfterLookup(r, resp) ==
  \E res \in {fetchDatamuse(resp)} :
    /\ lastFetch' = [lastFetch EXCEPT ![r] = resp]
    /\ response' = [response EXCEPT ![r] = NoResponse]
    /\ candidates' = [candidates EXCEPT ![r] = res.value]
    /\ stubbed' = [stubbed EXCEPT ![r] =
         @ /\ ~resp.rejected /\ resp.status = 200 /\ resp.kind = "array"]
    /\ IF res.threw
       THEN Rejects(r) /\ UNCHANGED firstPicks
       ELSE IF Len(res.value) = 0
       THEN Break(r, chain[r], maxAttempts[r], nLookups[r]) /\ UNCHANGED firstPicks
       ELSE \E unused \in {unusedCandidates(chain[r], res.value)} :
              IF Len(unused) > 0
              THEN \E u \in RandomValues :
                     \E i \in {RandomIndex(u, Len(unused))} :
                       \E nextWord \in {unused[i + 1]} :
                         /\ firstPicks' = [firstPicks EXCEPT ![r] = @ /\ i = 0]
                         /\ LoopHead(r, Append(chain[r], nextWord),
                                     maxAttempts[r], nLookups[r])
              ELSE Break(r, chain[r], maxAttempts[r], nLookups[r])
                   /\ UNCHANGED firstPicks

(***************************************************************************)
(* Actions.                                                                *)
(***************************************************************************)
\* A GET /api/chain request arrives: lines 36-46, then the loop up to the
\* first `await fetch`.
StartBuild(r) ==
  /\ pc[r] = "idle"
  /\ \E u \in RandomValues :
       LoopHead(r, <<SeedPick(u)>>, MaxAttemptsInit, 0)
  /\ UNCHANGED <<graph, response, lastFetch, candidates, stubbed, firstPicks>>

\* The answer has been sent and the request is over: its locals are gone,
\* and the next request starts from nothing.
EndRequest(r) ==
  /\ pc[r] = "responded"
  /\ pc' = [pc EXCEPT ![r] = "idle"]
  /\ chain' = [chain EXCEPT ![r] = <<>>]
  /\ maxAttempts' = [maxAttempts EXCEPT ![r] = 0]
  /\ query' = [query EXCEPT ![r] = <<>>]
  /\ response' = [response EXCEPT ![r] = NoResponse]
  /\ lastFetch' = [lastFetch EXCEPT ![r] = NoResponse]
  /\ candidates' = [candidates EXCEPT ![r] = <<>>]
  /\ nLookups' = [nLookups EXCEPT ![r] = 0]
  /\ stubbed' = [stubbed EXCEPT ![r] = TRUE]
  /\ firstPicks' = [firstPicks EXCEPT ![r] = TRUE]
  /\ NoAnswer(r)
  /\ UNCHANGED graph

\* The fetch promise rejects: a transport error or a timeout error.
FetchRejects(r) ==
  /\ pc[r] = "awaitFetch"
  /\ AfterLookup(r, RejectedResponse)
  /\ UNCHANGED graph

\* The fetch promise resolves with a response of any status; its body is
\* the stub's array for the query, some other JSON value, or no JSON.
FetchResolves(r) ==
  /\ pc[r] = "awaitFetch"
  /\ \E st \in Statuses, kind \in BodyKinds :
       response' = [response EXCEPT ![r] =
         Response(FALSE, st, kind,
                  IF kind = "array" THEN Body(graph, query[r]) ELSE <<>>)]
  /\ pc' = [pc EXCEPT ![r] = "awaitJson"]
  /\ UNCHANGED <<graph, chain, maxAttempts, query, lastFetch, candidates,
                 nLookups, stubbed, firstPicks, buildOutcome, source,
                 resStatus, resBody>>

\* response.json() settles and the build runs on to its next suspension.
JsonSettles(r) ==
  /\ pc[r] = "awaitJson"
  /\ AfterLookup(r, response[r])
  /\ UNCHANGED graph

\* The fetch promise never settles: the code sets no timeout.
FetchStalls(r) ==
  /\ pc[r] = "awaitFetch"
  /\ pc' = [pc EXCEPT ![r] = "stalled"]
  /\ UNCHANGED <<graph, chain, maxAttempts, query, response, lastFetch,
                 candidates, nLookups, stubbed, firstPicks, buildOutcome,
                 source, resStatus, resBody>>

Step(r) ==
  \/ StartBuild(r)
  \/ FetchRejects(r)
  \/ FetchResolves(r)
  \/ JsonSettles(r)
  \/ FetchStalls(r)
  \/ EndRequest(r)

\* Requests served one after the other.
Serial == {1}

Next == \E r \in Serial : Step(r) /\ UNCHANGED clientVars

Spec == Init /\ [][Next]_vars

\* Requests served concurrently: the builds of all requests interleave at
\* their suspension points (`await fetch`, `await response.json()`).  The
\* random draws of a seed and of a fallback chain are kept to the first and
\* the last entry of their tables, on the branching graph.
ConcSeeds == {seedWords[1], seedWords[Len(seedWords)]}

ConcFallbacks == {fallbackChains[1], fallbackChains[Len(fallbackChains)]}

ConcDrawsOnly ==
  \A r \in Requests :
    /\ Len(chain[r]) >= 1 => chain[r][1] \in ConcSeeds
    /\ source[r] = "fallback" => resBody[r] \in ConcFallbacks

ConcInit == Init /\ graph = "branch"

ConcNext ==
  \E r \in Requests : Step(r) /\ ConcDrawsOnly' /\ UNCHANGED clientVars

ConcSpec == ConcInit /\ [][ConcNext]_vars

(***************************************************************************)
(* The client: the App component of src/client/src/App.tsx, lines 248-547  *)
(* (the definition with failedWords and shouldJiggle).                     *)
(***************************************************************************)
\* (Date.now() - startTime) / 1000 divides by this; times are kept in ms.
MsPerSecond == 1000

IsSpace(c) == c = " "

\* String.prototype.trim
trim(s) ==
  LET kept == {i \in 1..Len(s) : ~IsSpace(s[i])}
  IN  IF kept = {}
      THEN <<>>
      ELSE SubSeq(s, CHOOSE i \in kept : \A j \in kept : i <= j,
                     CHOOSE i \in kept : \A j \in kept : i >= j)

\* new Array(n).fill(v)
Filled(n, v) == [i \in 1..n |-> v]

\* Mutant: no word is shown as completed at the start.
FirstRevealed_None(ch) == Filled(Len(ch), FALSE)

\* [true, ...new Array(chain.length - 1).fill(false)]
FirstRevealed(ch) == <<TRUE>> \o Filled(Len(ch) - 1, FALSE)

\* Mutant: guessing starts at the first word.
StartIndex_Zero == 1 - 1

\* currentWordIndex: 1 (lines 293 and 424)
StartIndex == 1

\* Mutant: a new word starts with no letter shown.
StartRevealed_Zero == 1 - 1

\* revealedLetters: 1 (lines 268, 361, 402, 425)
StartRevealed == 1

\* Mutant: a wrong guess reveals two letters.
NewRevealedLetters_Two(r) == r + 2

\* const newRevealedLetters = gameState.revealedLetters + 1 (line 368)
NewRevealedLetters(r) == r + 1

\* Mutant: a word is never given up, however many letters are shown.
FullyRevealed_Never(new, max) == FALSE

\* newRevealedLetters >= maxLetters (line 377)
FullyRevealed(new, max) == new >= max

\* Mutant: the game is complete one word early.
IsComplete_Early(nextIndex, ch) == nextIndex >= Len(ch) - 1

\* const isComplete = nextIndex >= gameState.wordChain.length (334, 383)
IsComplete(nextIndex, ch) == nextIndex >= Len(ch)

\* The value is truthy as a condition: not null and not 0.
Truthy(t) == t # Null /\ t # 0

\* Mutant: the display always follows the running timer.
currentTime_Elapsed == elapsedTime

\* Lines 475-477, in ms: the time the header shows before formatting.
currentTime ==
  IF isGameComplete /\ Truthy(endTime) THEN endTime - startTime ELSE elapsedTime

\* Math.floor(seconds).toString() (lines 471-473), of a time in ms.
formatTime(t) == t \div MsPerSecond

\* Mutant: the guess is compared letter for letter, case included.
Matches_Exact(guess, word) == guess = word

\* guess.toLowerCase() === currentWord.toLowerCase() (line 328)
Matches(guess, word) == toLowerCase(guess) = toLowerCase(word)

\* gameState.wordChain[gameState.currentWordIndex]
CurrentWord == wordChain[currentWordIndex + 1]

\* The chains the client is served with: entries 3 and 7 of the fallback
\* table, which GET /api/chain can answer with at any time.
ClientChains == {fallbackChains[3], fallbackChains[7]}

\* A guess that matches no word of these chains.
WrongWord == <<"Z","z">>

\* What the player types: blanks only, a wrong word, the current word in
\* lower case behind a blank.
Inputs == {<<" ">>, WrongWord, <<" ">> \o toLowerCase(CurrentWord)}

\* The guess form is rendered (lines 479-485, 509): a chain is loaded and the
\* game is not complete.  Otherwise the loading screen or the Play Again
\* button is.
FormShown == Len(wordChain) > 0 /\ ~isGameComplete

\* setGameState of a loaded chain (lines 288-295, 421-433): the fields both
\* responses set.
LoadChain(ch) ==
  /\ wordChain' = ch
  /\ completedWords' = FirstRevealed(ch)
  /\ failedWords' = Filled(Len(ch), FALSE)
  /\ currentWordIndex' = StartIndex
  /\ startTime' = now
  /\ guesses' = 0

\* The timer effect (lines 301-311) after a render: the interval runs while
\* a chain is loaded and the game is not complete.
TimerEffect(ch, complete) == ~(Len(ch) = 0 \/ complete)

\* The mount effect's fetch resolves with a chain (lines 286-296).
MountResolves ==
  /\ mountFetch = "pending"
  /\ mountFetch' = "resolved"
  /\ \E ch \in ClientChains : LoadChain(ch) /\ intervalActive' = TimerEffect(ch, isGameComplete)
  /\ UNCHANGED << revealedLetters, isGameComplete, endTime, guessInput,
                  shouldJiggle, elapsedTime, replayFetches, jiggleTimers, now >>

\* The mount effect's fetch fails, or its body is not JSON (line 297): the
\* error is logged and the loading screen stays.
MountRejects ==
  /\ mountFetch = "pending"
  /\ mountFetch' = "rejected"
  /\ UNCHANGED << wordChain, currentWordIndex, revealedLetters, completedWords,
                  failedWords, isGameComplete, startTime, endTime, guessInput,
                  shouldJiggle, elapsedTime, intervalActive, replayFetches,
                  jiggleTimers, now, guesses >>

\* The interval callback (lines 304-306).
Tick ==
  /\ intervalActive
  /\ elapsedTime' = now - startTime
  /\ UNCHANGED << wordChain, currentWordIndex, revealedLetters, completedWords,
                  failedWords, isGameComplete, startTime, endTime, guessInput,
                  shouldJiggle, intervalActive, mountFetch, replayFetches,
                  jiggleTimers, now, guesses >>

\* Time passes.
TimePasses ==
  /\ now < ClockStep * (MaxClockSteps + 1)
  /\ now' = now + ClockStep
  /\ UNCHANGED << wordChain, currentWordIndex, revealedLetters, completedWords,
                  failedWords, isGameComplete, startTime, endTime, guessInput,
                  shouldJiggle, elapsedTime, intervalActive, mountFetch,
                  replayFetches, jiggleTimers, guesses >>

\* onChange of the guess input (lines 515-517).
onChange ==
  /\ FormShown
  /\ \E text \in Inputs : guessInput' = text
  /\ UNCHANGED << wordChain, currentWordIndex, revealedLetters, completedWords,
                  failedWords, isGameComplete, startTime, endTime, shouldJiggle,
                  elapsedTime, intervalActive, mountFetch, replayFetches,
                  jiggleTimers, now, guesses >>

\* The game is over (lines 338-347 and 387-395): the end time is taken and
\* the interval is cleared.
Finish ==
  /\ isGameComplete' = TRUE
  /\ endTime' = now
  /\ intervalActive' = FALSE
  /\ UNCHANGED << currentWordIndex, revealedLetters >>

\* Move to the next word (lines 357-363 and 398-403).
MoveOn(nextIndex) ==
  /\ currentWordIndex' = nextIndex
  /\ revealedLetters' = StartRevealed
  /\ UNCHANGED << isGameComplete, endTime, intervalActive >>

\* Lines 329-364: the guess matches the current word.
CorrectGuess ==
  /\ completedWords' = [completedWords EXCEPT ![currentWordIndex + 1] = TRUE]
  /\ IF IsComplete(currentWordIndex + 1, wordChain)
     THEN Finish
     ELSE MoveOn(currentWordIndex + 1)
  /\ UNCHANGED << failedWords, shouldJiggle, jiggleTimers >>

\* Lines 366-411: the guess does not match.
WrongGuess ==
  /\ jiggleTimers < MaxJiggleTimers
  /\ shouldJiggle' = TRUE
  /\ jiggleTimers' = jiggleTimers + 1
  /\ IF FullyRevealed(NewRevealedLetters(revealedLetters), Len(CurrentWord))
     THEN /\ failedWords' = [failedWords EXCEPT ![currentWordIndex + 1] = TRUE]
          /\ IF IsComplete(currentWordIndex + 1, wordChain)
             THEN Finish
             ELSE MoveOn(currentWordIndex + 1)
     ELSE /\ revealedLetters' = NewRevealedLetters(revealedLetters)
          /\ UNCHANGED << failedWords, currentWordIndex, isGameComplete,
                          endTime, intervalActive >>
  /\ UNCHANGED completedWords

\* handleGuess (lines 320-413): the form is submitted.
handleGuess ==
  /\ FormShown
  /\ IF isGameComplete \/ trim(guessInput) = <<>>
     THEN UNCHANGED << currentWordIndex, revealedLetters, completedWords,
                       failedWords, isGameComplete, endTime, guessInput,
                       shouldJiggle, intervalActive, jiggleTimers, guesses >>
     ELSE /\ IF Matches(trim(guessInput), CurrentWord)
             THEN CorrectGuess
             ELSE WrongGuess
          /\ guessInput' = <<>>
          /\ guesses' = guesses + 1
  /\ UNCHANGED << wordChain, startTime, elapsedTime, mountFetch,
                  replayFetches, now >>

\* The timeout of a wrong guess runs (lines 372-374).
JiggleTimeout ==
  /\ jiggleTimers > 0
  /\ jiggleTimers' = jiggleTimers - 1
  /\ shouldJiggle' = FALSE
  /\ UNCHANGED << wordChain, currentWordIndex, revealedLetters, completedWords,
                  failedWords, isGameComplete, startTime, endTime, guessInput,
                  elapsedTime, intervalActive, mountFetch, replayFetches, now,
                  guesses >>

\* handlePlayAgain (lines 415-417): the button is clicked and a new chain is
\* asked for.  The button is rendered when the game is complete (526-535).
handlePlayAgain ==
  /\ isGameComplete
  /\ replayFetches < MaxReplayFetches
  /\ replayFetches' = replayFetches + 1
  /\ UNCHANGED << wordChain, currentWordIndex, revealedLetters, completedWords,
                  failedWords, isGameComplete, startTime, endTime, guessInput,
                  shouldJiggle, elapsedTime, intervalActive, mountFetch,
                  jiggleTimers, now, guesses >>

\* A fetch of handlePlayAgain resolves with a chain (lines 419-435).
ReplayResolves ==
  /\ replayFetches > 0
  /\ replayFetches' = replayFetches - 1
  /\ \E ch \in ClientChains : LoadChain(ch) /\ intervalActive' = TimerEffect(ch, FALSE)
  /\ revealedLetters' = StartRevealed
  /\ isGameComplete' = FALSE
  /\ endTime' = Null
  /\ guessInput' = <<>>
  /\ shouldJiggle' = FALSE
  /\ elapsedTime' = 0
  /\ UNCHANGED << mountFetch, jiggleTimers, now >>

\* A fetch of handlePlayAgain fails (line 436): the error is logged.
ReplayRejects ==
  /\ replayFetches > 0
  /\ replayFetches' = replayFetches - 1
  /\ UNCHANGED << wordChain, currentWordIndex, revealedLetters, completedWords,
                  failedWords, isGameComplete, startTime, endTime, guessInput,
                  shouldJiggle, elapsedTime, intervalActive, mountFetch,
                  jiggleTimers, now, guesses >>

ClientStep ==
  \/ MountResolves
  \/ MountRejects
  \/ Tick
  \/ TimePasses
  \/ onChange
  \/ handleGuess
  \/ JiggleTimeout
  \/ handlePlayAgain
  \/ ReplayResolves
  \/ ReplayRejects

\* The client alone: the server is not looked into, its answers are the
\* chains of ClientChains.
ClientSpecInit == Init /\ graph = "path"

ClientNext == ClientStep /\ UNCHANGED serverVars

ClientSpec == ClientSpecInit /\ [][ClientNext]_vars

(***************************************************************************)
(* Properties of the chains the server returns.                            *)
(***************************************************************************)
Responded(r) == pc[r] = "responded"

SameIgnoringCase(a, b) == toLowerCase(a) = toLowerCase(b)

\* ^[A-Z][a-z]+$
IsCapitalizedWord(w) ==
  /\ Len(w) >= 2
  /\ IsUpper(w[1])
  /\ \A i \in 2..Len(w) : IsLower(w[i])

NoRepeatedWord(ch) ==
  LET low == [i \in 1..Len(ch) |-> toLowerCase(ch[i])]
  IN  \A i, j \in 1..Len(ch) : i # j => low[i] # low[j]

\* C1: every chain the handler answers with, generated or fallback, has
\* exactly 6 words, whatever the association service did.
C1_SixWords ==
  \A r \in Requests : Responded(r) => Len(resBody[r]) = 6

\* A generated chain was returned after five lookups.
C1_Witness ==
  \E r \in Requests :
    Responded(r) /\ source[r] = "generated" /\ nLookups[r] = 5 /\ Len(resBody[r]) = 6

\* C2: no returned chain holds the same word twice, ignoring letter case.
C2_NoRepeatedWord ==
  \A r \in Requests : Responded(r) => NoRepeatedWord(resBody[r])

\* A generated chain was returned although a lookup of the build ranked a
\* word that equals an earlier chain word in another letter case.
C2_Witness ==
  \E r \in Requests :
    /\ Responded(r) /\ source[r] = "generated" /\ stubbed[r]
    /\ \E i \in 1..5 :
         LET raw == Body(graph, toLowerCase(resBody[r][i]))
         IN  \E k \in 1..Len(raw), j \in 1..i :
               /\ raw[k].kind = "string"
               /\ SameIgnoringCase(raw[k].word, resBody[r][j])
               /\ raw[k].word # resBody[r][j]

\* C3 (state part): every word of a returned chain is one capitalized
\* alphabetic word.
C3_Shape ==
  \A r \in Requests :
    Responded(r) => \A i \in 1..Len(resBody[r]) : IsCapitalizedWord(resBody[r][i])

\* C3 (step part): a word appended to a chain in progress is the Title-cased
\* form of an entry of the response just read that is alphabetic and 3 to 12
\* letters long.
C3_Appended ==
  \A r \in Requests :
    (Len(chain[r]) >= 1 /\ Len(chain'[r]) = Len(chain[r]) + 1) =>
      LET new == chain'[r][Len(chain'[r])]
          raw == lastFetch'[r].items
      IN  \E k \in 1..Len(raw) :
            /\ raw[k].kind = "string"
            /\ IsAlphabetic(raw[k].word)
            /\ Len(raw[k].word) \in 3..12
            /\ SameIgnoringCase(new, raw[k].word)
            /\ IsCapitalizedWord(new)

\* C3: every word of every returned chain is a single capitalized alphabetic
\* word, and every appended word is the Title-cased form of a valid candidate.
C3_CapitalizedWords == []C3_Shape /\ [][C3_Appended]_vars

\* A generated chain holding the 12-letter candidate, which the service
\* ranked in lower case.
C3_Witness ==
  \E r \in Requests :
    /\ Responded(r) /\ source[r] = "generated"
    /\ \E i \in 2..6 : resBody[r][i] = <<"T","h","u","n","d","e","r","s","t","o","r","m">>

\* The build of request r is between its first lookup and its answer, and
\* no lookup of it has been lost.
InProgress(r) == pc[r] \in {"awaitFetch", "awaitJson"}

\* How many suspensions the build of request r can still go through.
Rank(r) ==
  CASE pc[r] = "awaitFetch" -> 2 * maxAttempts[r] + 2
    [] pc[r] = "awaitJson"  -> 2 * maxAttempts[r] + 1
    [] OTHER                -> 0

\* C4 (step part): every step of a build in progress brings it nearer to
\* its answer, unless the lookup is lost.
C4_Progress ==
  \A r \in Requests :
    (InProgress(r) /\ pc'[r] # pc[r] /\ pc'[r] # "stalled") => Rank(r)' < Rank(r)

\* C4 (state part): a build in progress can always be continued by its
\* lookup settling, generateWordChain never rejects, and what it returns is
\* a chain of the build or of the fallback table.
C4_State ==
  \A r \in Requests :
    /\ InProgress(r) => ENABLED (FetchRejects(r) \/ FetchResolves(r) \/ JsonSettles(r))
    /\ buildOutcome[r] # "threw"
    /\ Responded(r) =>
         /\ buildOutcome[r] = "returned"
         /\ \/ source[r] = "generated" /\ resBody[r] = chain[r]
            \/ source[r] = "fallback" /\
                 \E i \in 1..Len(fallbackChains) : resBody[r] = fallbackChains[i]

\* C4: a build whose lookups all settle ends with a returned chain after a
\* bounded number of steps, and generateWordChain never rejects.
C4_BuildFinishes == []C4_State /\ [][C4_Progress]_vars

\* A build returned after a lookup whose body was no JSON.
C4_Witness ==
  \E r \in Requests :
    Responded(r) /\ buildOutcome[r] = "returned" /\ lastFetch[r].kind = "text"

\* C5: whatever the association service does, the handler answers 200 with
\* a valid 6-word chain.
C5_Always200 ==
  \A r \in Requests :
    Responded(r) =>
      /\ resStatus[r] = 200
      /\ Len(resBody[r]) = 6
      /\ NoRepeatedWord(resBody[r])
      /\ \A i \in 1..Len(resBody[r]) : IsCapitalizedWord(resBody[r][i])

\* The handler answered after the service sent a 500 with an error object.
C5_Witness ==
  \E r \in Requests :
    /\ Responded(r) /\ resStatus[r] = 200 /\ source[r] = "fallback"
    /\ lastFetch[r].status = 500 /\ lastFetch[r].kind = "object"

(***************************************************************************)
(* Properties of the lookup.                                               *)
(***************************************************************************)
\* The last lookup of request r has settled.
Settled(r) == lastFetch[r].rejected \/ lastFetch[r].kind # "none"

\* C6: fetchDatamuse never raises, and after a transport error, a
\* non-success status or a malformed body it returned the empty list.
C6_EmptyOnFailure ==
  \A r \in Requests :
    /\ buildOutcome[r] # "threw"
    /\ ( \/ lastFetch[r].rejected
         \/ (Settled(r) /\ lastFetch[r].status # 200)
         \/ (Settled(r) /\ lastFetch[r].kind \in {"object", "text"}) )
       => candidates[r] = <<>>

\* C7 as claimed: a request whose lookup never responds can still go on
\* (to a fallback chain).
C7_NeverHangs ==
  \A r \in Requests : pc[r] = "stalled" => ENABLED Step(r)

\* One step under C7 as amended: a lookup that fails with an error ends the
\* build in that step with a fallback chain, and a request whose lookup
\* never settles stays where it is.
C7_Step ==
  \A r \in Requests :
    /\ (pc[r] = "awaitFetch" /\ lastFetch'[r].rejected) =>
         /\ pc'[r] = "responded"
         /\ candidates'[r] = <<>>
         /\ source'[r] = "fallback"
         /\ \E i \in 1..Len(fallbackChains) : resBody'[r] = fallbackChains[i]
    /\ pc[r] = "stalled" => pc'[r] = "stalled"

\* C7 as amended: a lookup that fails with an error, a timeout error
\* included, is an empty-candidate dead end answered with a fallback chain;
\* a lookup that never settles leaves the request unanswered for good.
C7_TimeoutErrorIsDeadEnd == [][C7_Step]_vars

\* A lookup after the first one failed with an error, and the request was
\* answered with a fallback chain.
C7_Witness ==
  \E r \in Requests :
    /\ Responded(r) /\ lastFetch[r].rejected /\ source[r] = "fallback"
    /\ Len(chain[r]) >= 2

\* The valid entries of an array, each taken or dropped on its own.
ValidEntries(items) ==
  LET valid(it) == /\ it.kind = "string"
                   /\ IsAlphabetic(it.word)
                   /\ Len(it.word) \in 3..12
  IN  SelectSeq(items, valid)

\* C8: a malformed entry of an array is dropped on its own: the lookup
\* returns the (first 15) valid entries of the array, Title-cased.
C8_BadEntriesDropped ==
  \A r \in Requests :
    (Settled(r) /\ lastFetch[r].kind = "array") =>
      LET valid == ValidEntries(lastFetch[r].items)
      IN  /\ Len(candidates[r]) = Min(Len(valid), 15)
          /\ \A k \in 1..Len(candidates[r]) :
               SameIgnoringCase(candidates[r][k], valid[k].word)

(***************************************************************************)
(* The stubbed graph and the first-candidate walk.                         *)
(***************************************************************************)
\* What a lookup of word w returns when the stub g answers it.
StubCandidates(g, w) ==
  fetchDatamuse(Response(FALSE, 200, "array", Body(g, toLowerCase(w)))).value

\* The positions of the candidates of the last word that are not in ch.
FreshPositions(g, ch) ==
  LET c == StubCandidates(g, ch[Len(ch)])
  IN  {k \in 1..Len(c) : \A i \in 1..Len(ch) : ch[i] # c[k]}

SetMin(S) == CHOOSE k \in S : \A m \in S : k <= m

\* The seed followed, at each step, by the first candidate of the previous
\* word that is not already in the chain, up to 6 words.
RECURSIVE FirstCandidateWalk(_, _)
FirstCandidateWalk(g, ch) ==
  IF Len(ch) >= 6 \/ FreshPositions(g, ch) = {}
  THEN ch
  ELSE FirstCandidateWalk(g,
         Append(ch, StubCandidates(g, ch[Len(ch)])[SetMin(FreshPositions(g, ch))]))

\* The graph holds a path of 6 distinct words that extends ch.
RECURSIVE HasPath(_, _)
HasPath(g, ch) ==
  \/ Len(ch) >= 6
  \/ \E k \in FreshPositions(g, ch) :
       HasPath(g, Append(ch, StubCandidates(g, ch[Len(ch)])[k]))

\* The build of request r ran against the stub alone and every random
\* choice of a candidate picked the first one.
StubbedFirstPicks(r) == Responded(r) /\ stubbed[r] /\ firstPicks[r]

C11_Appended ==
  \A r \in Requests :
    (Len(chain[r]) >= 1 /\ Len(chain'[r]) = Len(chain[r]) + 1) =>
      /\ query[r] = toLowerCase(chain[r][Len(chain[r])])
      /\ SubSeq(chain'[r], 1, Len(chain[r])) = chain[r]
      /\ Includes(candidates'[r], chain'[r][Len(chain'[r])])
      /\ candidates'[r] = fetchDatamuse(lastFetch'[r]).value

\* C11 (state part): in a generated chain that is returned, each word after
\* the first is among the filtered candidates the service holds for the
\* word before it.
C11_Returned ==
  \A r \in Requests :
    (Responded(r) /\ source[r] = "generated") =>
      /\ resBody[r] = chain[r]
      /\ \A i \in 1..(Len(resBody[r]) - 1) :
           Includes(StubCandidates(graph, resBody[r][i]), resBody[r][i + 1])

\* C11: in every generated chain, chain[i+1] is one of the filtered
\* candidates returned by the lookup issued for chain[i], for i in 0..4.
C11_AdjacentPairs == []C11_Returned /\ [][C11_Appended]_vars

\* A generated chain was returned by a build on the branching graph, where
\* a lookup returns several candidates and not all of them lead on.
C11_Witness ==
  \E r \in Requests :
    /\ Responded(r) /\ source[r] = "generated" /\ graph = "branch"
    /\ nLookups[r] = 5 /\ Len(resBody[r]) = 6

(***************************************************************************)
(* Independence of interleaved builds.                                     *)
(***************************************************************************)
\* Everything the server holds for request r.
Slot(r) ==
  << pc[r], chain[r], maxAttempts[r], query[r], response[r], lastFetch[r],
     candidates[r], nLookups[r], stubbed[r], firstPicks[r], buildOutcome[r],
     source[r], resStatus[r], resBody[r] >>

\* ch is a chain a build can grow on graph g: a seed, then at each place a
\* candidate of the word before it that is not already in the chain.
IsWalk(g, ch) ==
  /\ Len(ch) >= 1
  /\ \E k \in 1..Len(seedWords) : ch[1] = seedWords[k]
  /\ \A i \in 1..(Len(ch) - 1) :
       Includes(unusedCandidates(SubSeq(ch, 1, i), StubCandidates(g, ch[i])),
                ch[i + 1])

\* What a request that runs alone can be answered with: a walk of 6 words,
\* or an entry of the fallback table.
Returnable(g, body) ==
  \/ Len(body) = ChainLength /\ IsWalk(g, body)
  \/ \E k \in 1..Len(fallbackChains) : body = fallbackChains[k]

\* C12 (step part): a step of the server changes what it holds for one
\* request only, and leaves the service's graph alone; a word appended to a
\* chain comes from that build's own lookup.
C12_OneSlot ==
  /\ graph' = graph
  /\ \A r, q \in Requests : (r # q /\ Slot(r)' # Slot(r)) => Slot(q)' = Slot(q)
  /\ C11_Appended

\* C12 (state part): every chain in progress holds its own seed followed by
\* words of its own lookups, and every answer is one the request could have
\* got alone.
C12_OwnChain ==
  \A r \in Requests :
    /\ Len(chain[r]) >= 1 => IsWalk(graph, chain[r])
    /\ Responded(r) => Returnable(graph, resBody[r])
    /\ (Responded(r) /\ source[r] = "generated") => resBody[r] = chain[r]

\* C12: interleaved builds are independent of each other.
C12_Independent == []C12_OwnChain /\ [][C12_OneSlot]_vars

\* Two builds with different seeds are suspended in the middle of their
\* loops at different places: one reads a response body while the other
\* waits for its fetch.
C12_Witness ==
  /\ pc[1] = "awaitJson" /\ pc[2] = "awaitFetch"
  /\ chain[1][1] # chain[2][1]
  /\ Len(chain[1]) = 3 /\ Len(chain[2]) = 5

(***************************************************************************)
(* The fallback table.                                                     *)
(***************************************************************************)
\* C13 (answers): an answer that comes from the fallback path is an entry of
\* the table and has 6 alphabetic words.
C13_FromTable ==
  \A r \in Requests :
    (Responded(r) /\ source[r] = "fallback") =>
      /\ \E k \in 1..Len(fallbackChains) : resBody[r] = fallbackChains[k]
      /\ Len(resBody[r]) = 6
      /\ \A i \in 1..Len(resBody[r]) : IsAlphabetic(resBody[r][i])

\* C13 (reach): whenever a build waits for a lookup, a failure of that
\* lookup can be answered with any entry of the table.
C13_AllReachable ==
  \A r \in Requests :
    pc[r] = "awaitFetch" =>
      \A k \in 1..Len(fallbackChains) :
        ENABLED (/\ FetchRejects(r)
                 /\ source'[r] = "fallback"
                 /\ resBody'[r] = fallbackChains[k])

\* C13: the fallback table holds at least 10 chains, a build that falls back
\* can return every one of them, and what the fallback path returns is always
\* a table entry of 6 alphabetic words.
C13_FallbackTable ==
  /\ Len(fallbackChains) >= 10
  /\ \A k \in 1..Len(fallbackChains) :
       /\ Len(fallbackChains[k]) = 6
       /\ \A i \in 1..6 : IsAlphabetic(fallbackChains[k][i])
  /\ C13_FromTable
  /\ C13_AllReachable

\* A build that met a dead end after three lookups was answered with the
\* last entry of the table.
C13_Witness ==
  \E r \in Requests :
    /\ Responded(r) /\ source[r] = "fallback" /\ buildOutcome[r] = "returned"
    /\ nLookups[r] = 3
    /\ resBody[r] = fallbackChains[Len(fallbackChains)]

(***************************************************************************)
(* Properties of the client game.                                          *)
(***************************************************************************)
\* A chain has been loaded into the game.
Loaded == Len(wordChain) > 0

\* This step is a submitted guess that is not empty after trimming.
GuessStep == FormShown /\ guesses' = guesses + 1

\* This step is a guess that does not match the current word.
WrongGuessStep ==
  GuessStep /\ toLowerCase(trim(guessInput)) # toLowerCase(CurrentWord)

\* C14: once a chain has loaded, the first word is shown as completed, is
\* not marked as failed, and the word being guessed is one of the words
\* after it: 1 <= currentWordIndex <= wordChain.length - 1.
C14_FirstWordGiven ==
  Loaded =>
    /\ completedWords[1] = TRUE
    /\ failedWords[1] = FALSE
    /\ 1 <= currentWordIndex
    /\ currentWordIndex <= Len(wordChain) - 1

\* The game was played to its end and the last word was given up.
C14_Witness ==
  /\ Loaded /\ isGameComplete
  /\ currentWordIndex = Len(wordChain) - 1
  /\ failedWords[Len(wordChain)]

\* C15 as claimed: every wrong guess raises revealedLetters by exactly 1 and
\* leaves currentWordIndex unchanged.
C15_AlwaysOneMore ==
  [][WrongGuessStep =>
       /\ revealedLetters' = revealedLetters + 1
       /\ currentWordIndex' = currentWordIndex]_vars

\* C15 (step): a wrong guess that leaves a letter of the current word hidden
\* raises revealedLetters by exactly 1 and stays on the word; a wrong guess
\* that would show the last letter marks the word as failed and moves to the
\* next word with one letter shown, or ends the game on the last word.
C15_Step ==
  WrongGuessStep =>
    IF revealedLetters + 1 < Len(CurrentWord)
    THEN /\ revealedLetters' = revealedLetters + 1
         /\ currentWordIndex' = currentWordIndex
         /\ failedWords' = failedWords
         /\ isGameComplete' = isGameComplete
    ELSE /\ failedWords'[currentWordIndex + 1]
         /\ IF currentWordIndex + 1 < Len(wordChain)
            THEN currentWordIndex' = currentWordIndex + 1 /\ revealedLetters' = 1
            ELSE isGameComplete' /\ currentWordIndex' = currentWordIndex

\* C15 as amended: a wrong guess reveals exactly one more letter unless it
\* would reveal the last one.
C15_OneMoreUnlessLast == [][C15_Step]_vars

\* The second word was given up and one wrong guess was made on the third.
C15_Witness ==
  /\ Loaded /\ ~isGameComplete
  /\ failedWords[2] /\ currentWordIndex = 2 /\ revealedLetters = 2

\* Index i of the chain (counted from 1 here) is marked as finished.
Finished(i) == completedWords[i] \/ failedWords[i]

\* C16 (state): when the game is complete the chain has 6 words and every
\* one of them is marked in completedWords or in failedWords.
C16_AllFinished ==
  isGameComplete =>
    /\ Len(wordChain) = 6
    /\ Len(completedWords) = 6 /\ Len(failedWords) = 6
    /\ \A i \in 1..Len(wordChain) : Finished(i)

\* C16 (step): isGameComplete turns true only in a guess made on the last
\* word, and that guess marks the last word.
C16_Step ==
  (~isGameComplete /\ isGameComplete') =>
    /\ GuessStep
    /\ currentWordIndex = Len(wordChain) - 1
    /\ ~Finished(Len(wordChain))
    /\ completedWords'[Len(wordChain)] \/ failedWords'[Len(wordChain)]
    /\ wordChain' = wordChain

\* C16: the game is complete only after all 6 words are finished, and it
\* becomes complete only on the guess that finishes the last word.
C16_CompleteOnlyAtEnd == []C16_AllFinished /\ [][C16_Step]_vars

\* A complete game in which the third word was given up and the last word
\* was guessed.
C16_Witness ==
  /\ isGameComplete /\ failedWords[3] /\ completedWords[Len(wordChain)]
  /\ completedWords[2]

\* The sum of length - 1 over the words ch[from + 1] .. ch[Len(ch)].
RECURSIVE LettersToReveal(_, _)
LettersToReveal(ch, from) ==
  IF from >= Len(ch) THEN 0
  ELSE (Len(ch[from + 1]) - 1) + LettersToReveal(ch, from + 1)

\* The guesses an unfinished game can still take: the hidden letters of the
\* current word, and one less than the length of each word after it.
GuessesLeft ==
  IF isGameComplete THEN 0
  ELSE (Len(CurrentWord) - revealedLetters)
       + LettersToReveal(wordChain, currentWordIndex + 1)

\* C17 (step): every non-empty guess raises revealedLetters, or advances
\* currentWordIndex, or completes the game.
C17_Step ==
  GuessStep =>
    \/ revealedLetters' > revealedLetters /\ currentWordIndex' = currentWordIndex
    \/ currentWordIndex' > currentWordIndex
    \/ isGameComplete'

\* C17 (state): the non-empty guesses made and the guesses the game can still
\* take never add up to more than the sum over words 1..5 of length - 1; an
\* unfinished game can take one more guess, and a typed guess can be
\* submitted.
C17_Bounded ==
  Loaded =>
    /\ guesses + GuessesLeft <= LettersToReveal(wordChain, 1)
    /\ ~isGameComplete => GuessesLeft >= 1
    /\ guesses >= LettersToReveal(wordChain, 1) => isGameComplete
    /\ (FormShown /\ trim(guessInput) # <<>> /\ jiggleTimers < MaxJiggleTimers)
         => ENABLED (handleGuess /\ guesses' = guesses + 1)

\* C17: the game cannot get stuck, and it is complete after at most the sum
\* over words 1..5 of length - 1 non-empty guesses.
C17_NeverStuck == []C17_Bounded /\ [][C17_Step]_vars

\* A game that took the largest number of guesses: every word was given up.
C17_Witness ==
  /\ Loaded /\ isGameComplete
  /\ guesses = LettersToReveal(wordChain, 1)
  /\ \A i \in 2..Len(wordChain) : failedWords[i]

\* C18 (state): once a chain has loaded, revealedLetters is at least 1 and at
\* most the length of the current word.
C18_InWord ==
  Loaded => (1 <= revealedLetters /\ revealedLetters <= Len(CurrentWord))

\* C18 (step): when another word becomes current, by a guess or by a newly
\* loaded chain, revealedLetters is 1.
C18_Step ==
  (currentWordIndex' # currentWordIndex \/ wordChain' # wordChain)
    => revealedLetters' = 1

\* C18: revealedLetters stays within the current word and is 1 whenever a new
\* word becomes current.
C18_RevealedBounded == []C18_InWord /\ [][C18_Step]_vars

\* All letters but one of the last word are shown, after an earlier word was
\* given up.
C18_Witness ==
  /\ Loaded /\ ~isGameComplete
  /\ currentWordIndex = Len(wordChain) - 1
  /\ revealedLetters = Len(CurrentWord) - 1 /\ revealedLetters >= 3
  /\ failedWords[3]

\* The fields of gameState and the elapsed time.
gameVars ==
  << wordChain, currentWordIndex, revealedLetters, completedWords, failedWords,
     isGameComplete, startTime, endTime, guessInput, shouldJiggle, elapsedTime >>

\* The start-of-game value of the state.
StartOfGame ==
  /\ Len(wordChain) = 6
  /\ currentWordIndex = 1
  /\ revealedLetters = 1
  /\ completedWords = [i \in 1..Len(wordChain) |-> i = 1]
  /\ failedWords = [i \in 1..Len(wordChain) |-> FALSE]
  /\ isGameComplete = FALSE
  /\ endTime = Null
  /\ guessInput = <<>>
  /\ shouldJiggle = FALSE
  /\ elapsedTime = 0
  /\ startTime = now
  /\ currentTime = 0

\* C19 (step): a Play Again response that changes the game leaves the whole
\* state at its start-of-game value, with the interval running again.
C19_Step ==
  (replayFetches' < replayFetches /\ gameVars' # gameVars) =>
    StartOfGame' /\ intervalActive' /\ guesses' = 0

\* C19 (state): Play Again can be clicked on every complete game, and an
\* answer to it can then come.
C19_State ==
  /\ (isGameComplete /\ replayFetches < MaxReplayFetches) => ENABLED handlePlayAgain
  /\ replayFetches > 0 => ENABLED (ReplayResolves /\ StartOfGame')

C20_State ==
  /\ isGameComplete <=> endTime # Null
  /\ isGameComplete =>
       /\ currentTime = endTime - startTime
       /\ ~intervalActive
       /\ ~ENABLED Tick

\* C20 (step): endTime is taken in the step that finishes the last word, and
\* no step changes the time shown while the game stays complete.
C20_Step ==
  /\ (~isGameComplete /\ isGameComplete') =>
       (GuessStep /\ endTime' = now /\ Finished(Len(wordChain))')
  /\ (isGameComplete /\ isGameComplete') =>
       (currentTime' = currentTime /\ endTime' = endTime /\ startTime' = startTime)

\* C20: the timer stops on completion.
C20_TimerStops == []C20_State /\ [][C20_Step]_vars

\* A complete game whose last timer tick came before the last guess: the
\* time shown is not the last value of the running timer.
C20_Witness ==
  /\ isGameComplete
  /\ endTime - startTime = 2 * ClockStep
  /\ elapsedTime = ClockStep
  /\ formatTime(currentTime) = 1

\* The typed guess equals the current word when blanks around it and letter
\* case are ignored, and differs from it as typed.
SameWordTyped ==
  /\ FormShown
  /\ trim(guessInput) # <<>>
  /\ toLowerCase(trim(guessInput)) = toLowerCase(CurrentWord)

\* C21 (step): a submitted guess that equals the current word ignoring case
\* and surrounding blanks marks the word completed and not failed, shows no
\* further letter, and moves on by one word with one letter shown, or
\* completes the game on the last word.
C21_Step ==
  (SameWordTyped /\ guesses' = guesses + 1) =>
    /\ completedWords' = [completedWords EXCEPT ![currentWordIndex + 1] = TRUE]
    /\ failedWords' = failedWords
    /\ shouldJiggle' = shouldJiggle
    /\ IF currentWordIndex + 1 < Len(wordChain)
       THEN /\ currentWordIndex' = currentWordIndex + 1
            /\ revealedLetters' = 1
            /\ ~isGameComplete'
       ELSE /\ currentWordIndex' = currentWordIndex
            /\ revealedLetters' = revealedLetters
            /\ isGameComplete'

\* C21 (state): such a guess can always be submitted, and submitting it is
\* never the step of a wrong guess.
C21_State ==
  SameWordTyped =>
    /\ ENABLED (handleGuess /\ completedWords'[currentWordIndex + 1])
    /\ ~ENABLED (handleGuess /\ guesses' = guesses + 1
                 /\ ~completedWords'[currentWordIndex + 1])

\* C21: a guess equal to the current word ignoring letter case and
\* surrounding whitespace is always accepted as correct.
C21_CaseInsensitive == []C21_State /\ [][C21_Step]_vars

\* The last word was guessed, typed in lower case behind a blank (the one
\* matching input of the model), after two wrong guesses on it: the game is
\* complete, the word is completed and still three letters are shown.
C21_Witness ==
  /\ isGameComplete /\ completedWords[Len(wordChain)]
  /\ ~failedWords[Len(wordChain)]
  /\ revealedLetters = 3 /\ guessInput = <<>>
  /\ \A text \in Inputs : trim(text) # CurrentWord

(***************************************************************************)
(* Dead ends, the pick set and the lookups of a build.                     *)
(***************************************************************************)
\* In this step the lookup that request r was waiting for settles and the
\* build runs on from it.
LookupSettles(r) ==
  \/ pc[r] = "awaitJson" /\ pc'[r] # "awaitJson"
  \/ pc[r] = "awaitFetch" /\ pc'[r] = "responded"

\* body is an entry of the fallback table.
InFallbackTable(body) == \E k \in 1..Len(fallbackChains) : body = fallbackChains[k]

\* C22 (step): when a lookup settles with no candidate that is not already in
\* the chain, the build issues no further lookup, keeps neither the partial
\* chain nor starts another one, and is answered at once with an entry of
\* the fallback table.
C22_Step ==
  \A r \in Requests :
    (LookupSettles(r) /\ unusedCandidates(chain[r], candidates'[r]) = <<>>) =>
      /\ pc'[r] = "responded"
      /\ nLookups'[r] = nLookups[r]
      /\ chain'[r] = chain[r]
      /\ source'[r] = "fallback"
      /\ InFallbackTable(resBody'[r])

\* C22 (state): a build answered while its chain held the seed alone made
\* exactly one lookup, and a fallback answer after k lookups left a chain of
\* k words.
C22_State ==
  \A r \in Requests :
    (Responded(r) /\ source[r] = "fallback") =>
      /\ nLookups[r] = Len(chain[r])
      /\ unusedCandidates(chain[r], candidates[r]) = <<>>
      /\ Len(chain[r]) = 1 => nLookups[r] = 1

ValidWords(raw) ==
  LET valid == ValidEntries(raw)
  IN  [k \in 1..Len(valid) |-> Capitalize(valid[k].word)]

\* The pick set as the claim computes it: invalid and used candidates are
\* dropped, then the first 15 are kept.
FilterThenTruncate(ch, raw) ==
  SliceCandidates(unusedCandidates(ch, ValidWords(raw)))

\* C23: whenever a lookup settles on an array (without a null entry), the
\* set the next word is picked from is the first 15 valid, unused candidates
\* of the raw result.
C23_FilterThenTruncate ==
  [][\A r \in Requests :
       (/\ LookupSettles(r)
        /\ lastFetch'[r].kind = "array"
        /\ ~MapThrows(lastFetch'[r].items)) =>
         unusedCandidates(chain[r], candidates'[r])
           = FilterThenTruncate(chain[r], lastFetch'[r].items)]_vars

\* The raw result of a lookup holds a valid candidate that is not in ch.
HasUsable(ch, resp) ==
  /\ ~resp.rejected
  /\ resp.kind = "array"
  /\ unusedCandidates(ch, ValidWords(resp.items)) # <<>>

\* C24 (step): when a lookup settles on a result that holds a valid
\* candidate outside the chain, a word is appended and the build goes on to
\* its next lookup, or is answered with the generated chain once that has 6
\* words; otherwise the build falls back.
C24_Step ==
  \A r \in Requests :
    LookupSettles(r) =>
      IF HasUsable(chain[r], lastFetch'[r])
      THEN /\ Len(chain'[r]) = Len(chain[r]) + 1
           /\ IF Len(chain'[r]) = 6
              THEN pc'[r] = "responded" /\ source'[r] = "generated"
              ELSE pc'[r] = "awaitFetch"
      ELSE pc'[r] = "responded" /\ source'[r] = "fallback"

\* C24 (state): a fallback answer follows a lookup whose result held no
\* valid candidate outside the chain.
C24_State ==
  \A r \in Requests :
    (Responded(r) /\ source[r] = "fallback") =>
      ~HasUsable(chain[r], lastFetch[r])

\* C24: the build falls back only on a dead end: while every lookup holds a
\* valid candidate that is not in the chain, the build goes on to a
\* generated chain of 6 words.
C24_FallbackOnlyOnDeadEnd == []C24_State /\ [][C24_Step]_vars

\* C25: the candidates a lookup returns hold no word twice, even when the
\* raw batch holds case-variants of one word, and no chain, in progress or
\* returned, holds a word twice.
C25_NormalizedOnce ==
  \A r \in Requests :
    /\ \A i, j \in 1..Len(candidates[r]) :
         i # j => candidates[r][i] # candidates[r][j]
    /\ NoRepeatedWord(chain[r])
    /\ Responded(r) => NoRepeatedWord(resBody[r])

\* The build of request r waits for a lookup.
Waiting(r) == pc[r] \in {"awaitFetch", "awaitJson", "stalled"}

\* C26 (state): while a build waits, exactly one of its lookups is
\* outstanding (lookups issued = words in the chain, each word but the last
\* having come from a lookup that returned), and that lookup was issued for
\* the last word of the chain; a build that does not wait has none.
C26_State ==
  \A r \in Requests :
    /\ Waiting(r) =>
         /\ nLookups[r] = Len(chain[r])
         /\ query[r] = toLowerCase(chain[r][Len(chain[r])])
    /\ (Responded(r) /\ source[r] = "generated") => nLookups[r] = Len(chain[r]) - 1
    /\ (Responded(r) /\ source[r] = "fallback") => nLookups[r] = Len(chain[r])

\* C26 (step): a lookup is issued only when the build starts or in the step
\* in which its previous lookup returns or fails, one at a time, and for the
\* word that is then last in the chain.
C26_Step ==
  \A r \in Requests :
    nLookups'[r] > nLookups[r] =>
      /\ nLookups'[r] = nLookups[r] + 1
      /\ pc[r] = "idle" \/ LookupSettles(r)
      /\ pc'[r] = "awaitFetch"
      /\ query'[r] = toLowerCase(chain'[r][Len(chain'[r])])

\* C26: a single build is strictly sequential.
C26_Sequential == []C26_State /\ [][C26_Step]_vars

\* The fourth lookup of a build is outstanding after three have returned.
C26_Witness ==
  \E r \in Requests :
    pc[r] = "awaitFetch" /\ nLookups[r] = 4 /\ Len(chain[r]) = 4

\* C27: every lookup of a build is paid from the attempts budget of 20, which
\* never goes below 0, so a build never makes more than 20 lookups, whatever
\* the service answers.
C27_WithinBudget ==
  \A r \in Requests :
    pc[r] # "idle" =>
      /\ nLookups[r] = MaxAttemptsInit - maxAttempts[r]
      /\ maxAttempts[r] >= 0
      /\ nLookups[r] <= 20

\* A build made 5 lookups, one of them answered with a status other than
\* 200, and 15 attempts were left.
C27_Witness ==
  \E r \in Requests :
    Responded(r) /\ nLookups[r] = 5 /\ maxAttempts[r] = 15 /\ ~stubbed[r]

\* C28 (state): a build has issued at most 5 lookups, exactly 5 when it is
\* answered with a generated chain, and at least 15 attempts are left at
\* every moment, so the loop never ends because the budget is used up.
C28_State ==
  \A r \in Requests :
    pc[r] # "idle" =>
      /\ nLookups[r] <= 5
      /\ maxAttempts[r] >= 15
      /\ (Responded(r) /\ source[r] = "generated") => nLookups[r] = 5
      /\ Responded(r) => (LoopCond(chain[r], maxAttempts[r]) \/ Len(chain[r]) = 6)

\* C28 (step): when a lookup settles, the iteration appends exactly one word
\* or ends the loop with the chain as it was; a chain in progress changes in
\* no other way.
C28_Step ==
  \A r \in Requests :
    /\ LookupSettles(r) =>
         \/ /\ Len(chain'[r]) = Len(chain[r]) + 1
            /\ SubSeq(chain'[r], 1, Len(chain[r])) = chain[r]
         \/ pc'[r] = "responded" /\ chain'[r] = chain[r]
    /\ (pc[r] # "idle" /\ pc'[r] # "idle" /\ chain'[r] # chain[r])
         => LookupSettles(r)

IsSeed(w) == \E k \in 1..Len(seedWords) : w = seedWords[k]

\* C29: there are 16 seed words; every chain in progress and every chain
\* returned, generated or fallback, starts with one of them; a generated
\* chain starts with the seed of its build, and every entry of the fallback
\* table starts with a seed word.
C29_StartsWithSeed ==
  /\ Len(seedWords) = 16
  /\ \A k \in 1..Len(fallbackChains) : IsSeed(fallbackChains[k][1])
  /\ \A r \in Requests :
       /\ Len(chain[r]) >= 1 => IsSeed(chain[r][1])
       /\ Responded(r) => IsSeed(resBody[r][1])
       /\ (Responded(r) /\ source[r] = "generated") => resBody[r][1] = chain[r][1]

\* A build that began with one seed was answered with a fallback chain that
\* begins with another.
C29_Witness ==
  \E r \in Requests :
    /\ Responded(r) /\ source[r] = "fallback"
    /\ resBody[r][1] # chain[r][1] /\ Len(chain[r]) = 3

\* The chain and the progress of the game.
progressVars ==
  << wordChain, currentWordIndex, revealedLetters, completedWords, failedWords >>

\* C30: the chain and the progress of a loaded, unfinished game change only
\* in a step of handleGuess that takes a guess; no chain response replaces
\* the chain or resets the progress of a game that is being played.
C30_OnlyGuessesChangeGame ==
  [][(Loaded /\ ~isGameComplete /\ progressVars' # progressVars)
       => (GuessStep /\ wordChain' = wordChain)]_vars

====
